---- MODULE Spec2Model ----
(***************************************************************************)
(* Model of the t212_exit_tax core: the instrument registry               *)
(* (instrument_db.py), the exit tax engine (exit_tax.py), the valuation   *)
(* snapshot (snapshot.py) and the commands that run them (cli.py).        *)
(*                                                                         *)
(* A Python str is a sequence of one-character strings.  A decoded JSON   *)
(* value is a record tagged by k: null, bool, num, str, list (a sequence  *)
(* of values) or obj (a sequence of <<key, value>> pairs in insertion     *)
(* order, keys unique, as json.loads builds a dict).  Numbers are         *)
(* integers: money in whole units, the exit tax rate in hundredths (so    *)
(* exit_tax_due_today is in hundredths of a unit); floats that are not    *)
(* finite are not represented.  A date is <<year, month, day>>; years     *)
(* stay far from the last year a Python date can hold.                    *)
(***************************************************************************)
EXTENDS Integers, Sequences, FiniteSets, TLC

VARIABLES
    db_json,      \* instrument DB file content, decoded (InstrumentDB.load: data)
    by_isin,      \* InstrumentDB._by_isin: sequence of <<normalized isin, record>>
    db_state,     \* "unloaded" | "loaded" | "error" (load raised ValueError)
    q_isin,       \* argument of the last is_exit_tax call (Unset before any call)
    q_norm,       \* is_exit_tax's local norm in that call
    q_result,     \* value returned by that call
    pairs,        \* (identifier, type) pairs both shapes encode (shape comparison)
    db_json_b,    \* the Shape B file of the pairs
    by_isin_b,    \* _by_isin of the registry loaded from the Shape B file
    db_state_b,   \* "unloaded" | "loaded" | "error" for that registry
    q_result_b,   \* value its is_exit_tax returned for q_isin
    data,         \* positions file content, decoded (data of
                  \* compute_exit_tax_from_positions and of load_positions)
    exit_tax_rate, \* settings.irl_exit_tax_rate, in hundredths
    pc,           \* where the exit-tax command is
    idx,          \* elements of data the loop has consumed
    rows,         \* compute_exit_tax_from_positions: rows
    result,       \* the list compute_exit_tax_from_positions returned
    err,          \* the exception that ended the command ("none": none)
    filtered,     \* cli.exit_tax: rows after the is_exit_tax filter
    snap_pc,      \* where the snapshot command is
    snap_idx,     \* elements the running loop of the snapshot command has consumed
    snap_rows,    \* load_positions: rows, then cli.snapshot: rows
    snap_err,     \* the exception that ended the snapshot command ("none": none)
    csv_rows      \* the rows written to snapshot.csv so far, header first

dbVars == <<db_json, by_isin, db_state, q_isin, q_norm, q_result>>
shapeVars == <<pairs, db_json_b, by_isin_b, db_state_b, q_result_b>>
taxVars == <<data, exit_tax_rate, pc, idx, rows, result, err, filtered>>
snapVars == <<snap_pc, snap_idx, snap_rows, snap_err, csv_rows>>
vars == <<dbVars, shapeVars, taxVars, snapVars>>

-----------------------------------------------------------------------------
(* Bounds of the model *)

MaxIdLen == 2      \* longest identifier string queried
MaxEntries == 2    \* most entries in an instrument DB file
MaxPositions == 2  \* most elements in a positions file

-----------------------------------------------------------------------------
(* Python str helpers *)

LowerLetters == <<"a","b","c","d","e","f","g","h","i","j","k","l","m",
                  "n","o","p","q","r","s","t","u","v","w","x","y","z">>
UpperLetters == <<"A","B","C","D","E","F","G","H","I","J","K","L","M",
                  "N","O","P","Q","R","S","T","U","V","W","X","Y","Z">>
Whitespace == {" ", "\t", "\n"}

IsLower(c) == \E n \in DOMAIN LowerLetters : LowerLetters[n] = c
IsUpper(c) == \E n \in DOMAIN UpperLetters : UpperLetters[n] = c

UpperChar(c) ==
    IF IsLower(c)
    THEN UpperLetters[CHOOSE n \in DOMAIN LowerLetters : LowerLetters[n] = c]
    ELSE c

LowerChar(c) ==
    IF IsUpper(c)
    THEN LowerLetters[CHOOSE n \in DOMAIN UpperLetters : UpperLetters[n] = c]
    ELSE c

\* str.upper()
Upper(s) == [n \in DOMAIN s |-> UpperChar(s[n])]

\* str.lower()
Lower(s) == [n \in DOMAIN s |-> LowerChar(s[n])]

\* str.strip(): drop leading and trailing whitespace
RECURSIVE LStrip(_)
LStrip(s) ==
    IF s # <<>> /\ Head(s) \in Whitespace THEN LStrip(Tail(s)) ELSE s

RECURSIVE RStrip(_)
RStrip(s) ==
    IF s # <<>> /\ s[Len(s)] \in Whitespace
    THEN RStrip(SubSeq(s, 1, Len(s) - 1))
    ELSE s

Strip(s) == RStrip(LStrip(s))

\* "".join(s.split()): split on runs of whitespace and join the pieces
JoinSplit(s) == SelectSeq(s, LAMBDA c : c \notin Whitespace)

-----------------------------------------------------------------------------
(* Decoded JSON values and the Python operations the code applies to them *)

JNull == [k |-> "null"]
JBool(b) == [k |-> "bool", v |-> b]
JNum(n) == [k |-> "num", v |-> n]
JStr(s) == [k |-> "str", v |-> s]
JList(xs) == [k |-> "list", v |-> xs]
JObj(items) == [k |-> "obj", v |-> items]

\* isinstance(x, dict)
IsDict(x) == x.k = "obj"

\* isinstance(x, list)
IsList(x) == x.k = "list"

\* bool(x)
Truthy(x) ==
    CASE x.k = "null" -> FALSE
      [] x.k = "bool" -> x.v
      [] x.k = "num" -> x.v # 0
      [] OTHER -> x.v # <<>>

\* a or b
PyOr(a, b) == IF Truthy(a) THEN a ELSE b

HasKey(d, key) == \E n \in DOMAIN d.v : d.v[n][1] = key

\* d.get(key, default)
Get(d, key, default) ==
    IF HasKey(d, key)
    THEN d.v[CHOOSE n \in DOMAIN d.v : d.v[n][1] = key][2]
    ELSE default

\* mutant: the assignment adds an entry even when the key is present
DictSet_AlwaysAppend(items, key, value) == Append(items, <<key, value>>)

\* d[key] = value on a dict kept as a sequence of pairs
DictSet(items, key, value) ==
    IF \E n \in DOMAIN items : items[n][1] = key
    THEN [n \in DOMAIN items |->
            IF items[n][1] = key THEN <<key, value>> ELSE items[n]]
    ELSE Append(items, <<key, value>>)

Digits == <<"0","1","2","3","4","5","6","7","8","9">>

RECURSIVE NatStr(_)
NatStr(n) ==
    IF n < 10 THEN <<Digits[n + 1]>>
    ELSE NatStr(n \div 10) \o <<Digits[(n % 10) + 1]>>

\* str(n) of an int
IntStr(n) == IF n < 0 THEN <<"-">> \o NatStr(0 - n) ELSE NatStr(n)

\* str(x): a str is itself, the other values print as Python prints them
RECURSIVE PyRepr(_)
RECURSIVE ReprItems(_, _)
ReprItems(xs, isObj) ==
    IF xs = <<>> THEN <<>>
    ELSE (IF isObj
          THEN PyRepr(JStr(xs[1][1])) \o <<":", " ">> \o PyRepr(xs[1][2])
          ELSE PyRepr(xs[1]))
         \o (IF Len(xs) > 1 THEN <<",", " ">> ELSE <<>>)
         \o ReprItems(Tail(xs), isObj)

PyRepr(x) ==
    CASE x.k = "null" -> <<"N","o","n","e">>
      [] x.k = "bool" -> IF x.v THEN <<"T","r","u","e">> ELSE <<"F","a","l","s","e">>
      [] x.k = "num" -> IntStr(x.v)
      [] x.k = "str" -> <<"'">> \o x.v \o <<"'">>
      [] x.k = "list" -> <<"[">> \o ReprItems(x.v, FALSE) \o <<"]">>
      [] x.k = "obj" -> <<"{">> \o ReprItems(x.v, TRUE) \o <<"}">>

PyStr(x) == IF x.k = "str" THEN x.v ELSE PyRepr(x)

-----------------------------------------------------------------------------
(* instrument_db.py *)

K_TYPE == <<"T","Y","P","E">>
K_type == <<"t","y","p","e">>
K_isin == <<"i","s","i","n">>
K_ISIN == <<"I","S","I","N">>
K_Isin == <<"I","s","i","n">>
K_foo == <<"f","o","o">>

\* mutant: strips and upper-cases but keeps inner whitespace
normalize_isin_NoSplit(isin) ==
    IF isin = JNull THEN <<>>
    ELSE Upper(Strip(PyStr(isin)))

\* InstrumentDB.normalize_isin
normalize_isin(isin) ==
    IF isin = JNull THEN <<>>
    ELSE JoinSplit(Upper(Strip(PyStr(isin))))

\* InstrumentDB.load, Shape A: the loop over data.items()
RECURSIVE LoadDict(_, _)
LoadDict(items, acc) ==
    IF items = <<>> THEN acc
    ELSE LET key == items[1][1]
             val == items[1][2]
             norm == normalize_isin(JStr(key))
         IN  IF norm = <<>> THEN LoadDict(Tail(items), acc)
             ELSE IF IsDict(val)
                  THEN LoadDict(Tail(items), DictSet(acc, norm, val))
                  ELSE LoadDict(Tail(items),
                                DictSet(acc, norm, JObj(<<<<K_TYPE, val>>>>)))

\* mutant: the key is compared with "isin" without lower-casing it
RECURSIVE FirstIsinValue_CaseSensitive(_)
FirstIsinValue_CaseSensitive(items) ==
    IF items = <<>> THEN JNull
    ELSE IF items[1][1] = K_isin THEN items[1][2]
         ELSE FirstIsinValue_CaseSensitive(Tail(items))

\* the inner loop of Shape B: the value of the first key that lower-cases to "isin"
RECURSIVE FirstIsinValue(_)
FirstIsinValue(items) ==
    IF items = <<>> THEN JNull
    ELSE IF Lower(items[1][1]) = K_isin THEN items[1][2]
         ELSE FirstIsinValue(Tail(items))

\* InstrumentDB.load, Shape B: the loop over the list
RECURSIVE LoadList(_, _)
LoadList(recs, acc) ==
    IF recs = <<>> THEN acc
    ELSE LET rec == recs[1]
         IN  IF ~IsDict(rec) THEN LoadList(Tail(recs), acc)
             ELSE LET norm == normalize_isin(FirstIsinValue(rec.v))
                  IN  IF norm = <<>> THEN LoadList(Tail(recs), acc)
                      ELSE LoadList(Tail(recs), DictSet(acc, norm, rec))

\* InstrumentDB.load: the registry built, or "error" for the ValueError
load(doc) ==
    IF IsDict(doc) THEN [st |-> "loaded", by |-> LoadDict(doc.v, <<>>)]
    ELSE IF IsList(doc) THEN [st |-> "loaded", by |-> LoadList(doc.v, <<>>)]
    ELSE [st |-> "error", by |-> <<>>]

\* self._by_isin.get(norm): the record, or JNull for None
Lookup(by, norm) == Get(JObj(by), norm, JNull)

\* the tag is_exit_tax tests: str(rec.get("TYPE") or rec.get("type") or "")
TypeTag(rec) ==
    PyStr(PyOr(PyOr(Get(rec, K_TYPE, JNull), Get(rec, K_type, JNull)), JStr(<<>>)))

ETF == <<"E","T","F">>
INDEX == <<"I","N","D","E","X">>

\* mutant: the tag is compared without upper-casing it
is_exit_tax_NoUpper(by, isin) ==
    LET norm == normalize_isin(isin)
    IN  IF norm = <<>> THEN FALSE
        ELSE LET rec == Lookup(by, norm)
             IN  IF ~Truthy(rec) THEN FALSE
                 ELSE Strip(TypeTag(rec)) \in {ETF, INDEX}

\* mutant: the lookup strips the identifier but does not upper-case it
is_exit_tax_NoNormalize(by, isin) ==
    LET norm == IF isin = JNull THEN <<>> ELSE JoinSplit(PyStr(isin))
    IN  IF norm = <<>> THEN FALSE
        ELSE LET rec == Lookup(by, norm)
             IN  IF ~Truthy(rec) THEN FALSE
                 ELSE Strip(Upper(TypeTag(rec))) \in {ETF, INDEX}

\* InstrumentDB.is_exit_tax
is_exit_tax(by, isin) ==
    LET norm == normalize_isin(isin)
    IN  IF norm = <<>> THEN FALSE
        ELSE LET rec == Lookup(by, norm)
             IN  IF ~Truthy(rec) THEN FALSE
                 ELSE Strip(Upper(TypeTag(rec))) \in {ETF, INDEX}

\* InstrumentDB.count
count(by) == Len(by)

-----------------------------------------------------------------------------
(* exit_tax.py *)

K_instrument == <<"i","n","s","t","r","u","m","e","n","t">>
K_walletImpact == <<"w","a","l","l","e","t","I","m","p","a","c","t">>
K_ticker == <<"t","i","c","k","e","r">>
K_name == <<"n","a","m","e">>
K_currency == <<"c","u","r","r","e","n","c","y">>
K_createdAt == <<"c","r","e","a","t","e","d","A","t">>
K_totalCost == <<"t","o","t","a","l","C","o","s","t">>
K_currentValue == <<"c","u","r","r","e","n","t","V","a","l","u","e">>
K_unrealizedProfitLoss ==
    <<"u","n","r","e","a","l","i","z","e","d","P","r","o","f","i","t","L","o","s","s">>

IsDigit(c) == \E n \in DOMAIN Digits : Digits[n] = c
DigitVal(c) == (CHOOSE n \in DOMAIN Digits : Digits[n] = c) - 1
AllDigits(s) == s # <<>> /\ \A n \in DOMAIN s : IsDigit(s[n])

RECURSIVE NatVal(_)
NatVal(s) ==
    IF s = <<>> THEN 0
    ELSE 10 * NatVal(SubSeq(s, 1, Len(s) - 1)) + DigitVal(s[Len(s)])

\* float(s) of a str: surrounding whitespace ignored, an optional sign, digits
StrIsNumber(s) ==
    LET t == Strip(s)
    IN  \/ AllDigits(t)
        \/ t # <<>> /\ t[1] \in {"-", "+"} /\ AllDigits(Tail(t))

StrNumber(s) ==
    LET t == Strip(s)
    IN  IF t[1] = "-" THEN 0 - NatVal(Tail(t))
        ELSE IF t[1] = "+" THEN NatVal(Tail(t))
        ELSE NatVal(t)

\* _to_float: float(x), or default when float(x) raises
_to_float(x, default) ==
    CASE x.k = "num" -> x.v
      [] x.k = "bool" -> (IF x.v THEN 1 ELSE 0)
      [] x.k = "str" -> (IF StrIsNumber(x.v) THEN StrNumber(x.v) ELSE default)
      [] OTHER -> default

IsLeap(y) == (y % 4 = 0 /\ y % 100 # 0) \/ y % 400 = 0

DaysInMonth(y, m) ==
    IF m = 2 THEN (IF IsLeap(y) THEN 29 ELSE 28)
    ELSE IF m \in {4, 6, 9, 11} THEN 30 ELSE 31

\* a date is <<year, month, day>>; date(...) raises ValueError on the others
ValidDate(d) ==
    /\ d[1] >= 1
    /\ d[2] \in 1..12
    /\ d[3] >= 1
    /\ d[3] <= DaysInMonth(d[1], d[2])

\* mutant: no fallback for 29 February
_add_years_NoFallback(d, years) == <<d[1] + years, d[2], d[3]>>

\* _add_years
_add_years(d, years) ==
    IF ValidDate(<<d[1] + years, d[2], d[3]>>)
    THEN <<d[1] + years, d[2], d[3]>>
    ELSE <<d[1] + years, 2, 28>>

\* a time of day HH[:MM[:SS[.fff[fff]]]]
IsoTimeOk(t) ==
    /\ Len(t) \in {2, 5, 8, 12, 15}
    /\ AllDigits(SubSeq(t, 1, 2)) /\ NatVal(SubSeq(t, 1, 2)) <= 23
    /\ Len(t) >= 5 =>
          (t[3] = ":" /\ AllDigits(SubSeq(t, 4, 5)) /\ NatVal(SubSeq(t, 4, 5)) <= 59)
    /\ Len(t) >= 8 =>
          (t[6] = ":" /\ AllDigits(SubSeq(t, 7, 8)) /\ NatVal(SubSeq(t, 7, 8)) <= 59)
    /\ Len(t) >= 12 => (t[9] = "." /\ AllDigits(SubSeq(t, 10, Len(t))))

\* a UTC offset +HH:MM or -HH:MM
IsoOffsetOk(o) ==
    /\ Len(o) = 6
    /\ o[1] \in {"+", "-"}
    /\ o[4] = ":"
    /\ AllDigits(SubSeq(o, 2, 3)) /\ NatVal(SubSeq(o, 2, 3)) <= 23
    /\ AllDigits(SubSeq(o, 5, 6)) /\ NatVal(SubSeq(o, 5, 6)) <= 59

\* the part after the date: nothing, or one separator character and a time,
\* the time split from its offset at the first sign
IsoRestOk(r) ==
    \/ r = <<>>
    \/ /\ Len(r) >= 2
       /\ LET t == Tail(r)
              signs == {n \in DOMAIN t : t[n] \in {"+", "-"}}
          IN  IF signs = {} THEN IsoTimeOk(t)
              ELSE LET at == CHOOSE n \in signs : \A m \in signs : n <= m
                   IN  /\ IsoTimeOk(SubSeq(t, 1, at - 1))
                       /\ IsoOffsetOk(SubSeq(t, at, Len(t)))

\* datetime.fromisoformat accepts s
IsoOk(s) ==
    /\ Len(s) >= 10
    /\ s[5] = "-" /\ s[8] = "-"
    /\ AllDigits(SubSeq(s, 1, 4))
    /\ AllDigits(SubSeq(s, 6, 7))
    /\ AllDigits(SubSeq(s, 9, 10))
    /\ ValidDate(<<NatVal(SubSeq(s, 1, 4)), NatVal(SubSeq(s, 6, 7)),
                   NatVal(SubSeq(s, 9, 10))>>)
    /\ IsoRestOk(SubSeq(s, 11, Len(s)))

\* the date of the datetime fromisoformat returns
IsoDate(s) ==
    <<NatVal(SubSeq(s, 1, 4)), NatVal(SubSeq(s, 6, 7)), NatVal(SubSeq(s, 9, 10))>>

\* mutant: a text fromisoformat rejects is swallowed and a default date used
_parse_datetime_Lenient(s) ==
    LET t == Strip(s)
        u == IF t # <<>> /\ t[Len(t)] = "Z"
             THEN SubSeq(t, 1, Len(t) - 1) \o <<"+","0","0",":","0","0">>
             ELSE t
    IN  IF IsoOk(u) THEN [ok |-> TRUE, date |-> IsoDate(u)]
        ELSE [ok |-> TRUE, date |-> <<1970, 1, 1>>]

\* _parse_datetime: strip, a trailing Z becomes +00:00, then fromisoformat;
\* ok is FALSE for the ValueError
_parse_datetime(s) ==
    LET t == Strip(s)
        u == IF t # <<>> /\ t[Len(t)] = "Z"
             THEN SubSeq(t, 1, Len(t) - 1) \o <<"+","0","0",":","0","0">>
             ELSE t
    IN  IF IsoOk(u) THEN [ok |-> TRUE, date |-> IsoDate(u)]
        ELSE [ok |-> FALSE, date |-> <<0, 0, 0>>]

Max(a, b) == IF a >= b THEN a ELSE b

\* mutant: the gain is not clamped at zero
TaxableGain_NoClamp(current_value, total_cost) == current_value - total_cost

\* taxable_gain_today = max(current_value - total_cost, 0.0)
TaxableGain(current_value, total_cost) == Max(current_value - total_cost, 0)

\* exit_tax_due_today = taxable_gain_today * float(exit_tax_rate)
ExitTaxDue(taxable_gain_today, rate) == taxable_gain_today * rate

NoRow == [ticker |-> <<>>]

\* "for p in data": whether iter(data) succeeds (a list, a dict or a str)
\* or raises TypeError (None, a number, a bool)
Iterable(x) == x.k \in {"list", "obj", "str"}

\* "for p in data": the values p takes, in order: the elements of a list,
\* the keys of a dict, the characters of a str
Items(x) ==
    CASE x.k = "list" -> x.v
      [] x.k = "obj" -> [n \in DOMAIN x.v |-> JStr(x.v[n][1])]
      [] x.k = "str" -> [n \in DOMAIN x.v |-> JStr(<<x.v[n]>>)]
      [] OTHER -> <<>>

\* the body of the loop of compute_exit_tax_from_positions for one element p:
\* the ExitTaxRow appended, or the exception that leaves the function
LoopBody(p, rate, now) ==
    IF ~IsDict(p) THEN [err |-> "AttributeError", row |-> NoRow]
    ELSE
    LET inst == PyOr(Get(p, K_instrument, JObj(<<>>)), JObj(<<>>))
        wi == PyOr(Get(p, K_walletImpact, JObj(<<>>)), JObj(<<>>))
    IN  IF ~IsDict(inst) \/ ~IsDict(wi) THEN [err |-> "AttributeError", row |-> NoRow]
        ELSE
        LET created_at_raw == Strip(PyStr(Get(p, K_createdAt, JStr(<<>>))))
            parsed == _parse_datetime(created_at_raw)
        IN  IF created_at_raw # <<>> /\ ~parsed.ok
            THEN [err |-> "ValueError", row |-> NoRow]
            ELSE
            LET created_at == IF created_at_raw # <<>> THEN parsed.date ELSE now
                total_cost == _to_float(Get(wi, K_totalCost, JNull), 0)
                current_value == _to_float(Get(wi, K_currentValue, JNull), 0)
                taxable_gain_today == TaxableGain(current_value, total_cost)
            IN  [err |-> "none",
                 row |-> [
                    ticker |-> PyStr(Get(inst, K_ticker, JStr(<<>>))),
                    isin |-> PyStr(Get(inst, K_isin, JStr(<<>>))),
                    name |-> PyStr(Get(inst, K_name, JStr(<<>>))),
                    currency |-> PyStr(PyOr(PyOr(Get(wi, K_currency, JNull),
                                                 Get(inst, K_currency, JNull)),
                                            JStr(<<>>))),
                    created_at |-> created_at,
                    deemed_disposal_date |-> _add_years(created_at, 8),
                    total_cost |-> total_cost,
                    current_value |-> current_value,
                    unrealised_pl |-> _to_float(Get(wi, K_unrealizedProfitLoss, JNull),
                                                current_value - total_cost),
                    taxable_gain_today |-> taxable_gain_today,
                    exit_tax_due_today |-> ExitTaxDue(taxable_gain_today, rate)]]

\* mutant: the filter keeps every registered identifier, whatever its type
FilterRows_AnyRegistered(rs, by) ==
    SelectSeq(rs, LAMBDA r : HasKey(JObj(by), normalize_isin(JStr(r.isin))))

\* cli.exit_tax: rows = [r for r in rows if db.is_exit_tax(r.isin)]
FilterRows(rs, by) == SelectSeq(rs, LAMBDA r : is_exit_tax(by, JStr(r.isin)))

-----------------------------------------------------------------------------
(* snapshot.py *)

K_quantity == <<"q","u","a","n","t","i","t","y">>
K_averagePricePaid == <<"a","v","e","r","a","g","e","P","r","i","c","e","P","a","i","d">>
K_currentPrice == <<"c","u","r","r","e","n","t","P","r","i","c","e">>

\* _f: None for None, else float(x), or None when float(x) raises.  A
\* float | None value is JNum(v) or JNull.
_f(x) ==
    CASE x.k = "null" -> JNull
      [] x.k = "num" -> JNum(x.v)
      [] x.k = "bool" -> JNum(IF x.v THEN 1 ELSE 0)
      [] x.k = "str" -> (IF StrIsNumber(x.v) THEN JNum(StrNumber(x.v)) ELSE JNull)
      [] OTHER -> JNull

\* the body of the loop of load_positions for one element p: the
\* SnapshotRow appended, or the exception that leaves the function
SnapshotBody(p) ==
    IF ~IsDict(p) THEN [err |-> "AttributeError", row |-> NoRow]
    ELSE
    LET inst == PyOr(Get(p, K_instrument, JObj(<<>>)), JObj(<<>>))
        wi == PyOr(Get(p, K_walletImpact, JObj(<<>>)), JObj(<<>>))
    IN  IF ~IsDict(inst) \/ ~IsDict(wi) THEN [err |-> "AttributeError", row |-> NoRow]
        ELSE
        LET inst_currency == PyStr(Get(inst, K_currency, JStr(<<>>)))
        IN  [err |-> "none",
             row |-> [
                ticker |-> PyStr(Get(inst, K_ticker, JStr(<<>>))),
                isin |-> PyStr(Get(inst, K_isin, JStr(<<>>))),
                name |-> PyStr(Get(inst, K_name, JStr(<<>>))),
                currency |-> IF inst_currency # <<>> THEN inst_currency
                             ELSE PyStr(Get(wi, K_currency, JStr(<<>>))),
                quantity |-> PyOr(_f(Get(p, K_quantity, JNull)), JNum(0)),
                avg_price_paid |-> _f(Get(p, K_averagePricePaid, JNull)),
                current_price |-> _f(Get(p, K_currentPrice, JNull)),
                total_cost |-> _f(Get(wi, K_totalCost, JNull)),
                current_value |-> _f(Get(wi, K_currentValue, JNull)),
                unrealized_pl |-> _f(Get(wi, K_unrealizedProfitLoss, JNull))]]

Abs(n) == IF n < 0 THEN 0 - n ELSE n

RECURSIVE Gcd(_, _)
Gcd(a, b) == IF b = 0 THEN a ELSE Gcd(b, a % b)

\* a / b of two floats: ZeroDivisionError when b is 0, else the quotient,
\* kept exact as num / den in lowest terms with den > 0
TrueDiv(a, b) ==
    IF b = 0 THEN [err |-> "ZeroDivisionError", v |-> JNull]
    ELSE LET g == Gcd(Abs(a), Abs(b))
             sign == IF b < 0 THEN 0 - 1 ELSE 1
         IN  [err |-> "none",
              v |-> [k |-> "ratio", num |-> sign * (a \div g), den |-> sign * (b \div g)]]

\* mutant: the percentage is computed whenever both values are present
PlPct_NoZeroGuard(total_cost, unrealized_pl) ==
    IF total_cost # JNull /\ unrealized_pl # JNull
    THEN TrueDiv(unrealized_pl.v, total_cost.v)
    ELSE [err |-> "none", v |-> JNull]

\* write_snapshot_csv: pl_pct of one row
PlPct(total_cost, unrealized_pl) ==
    IF total_cost \notin {JNull, JNum(0)} /\ unrealized_pl # JNull
    THEN TrueDiv(unrealized_pl.v, total_cost.v)
    ELSE [err |-> "none", v |-> JNull]

\* csv.writer: None is written as the empty string, every other value as
\* its text (a number stays the number whose text it is)
CsvCell(x) == IF x = JNull THEN JStr(<<>>) ELSE x

\* write_snapshot_csv: the header row
Header ==
    << JStr(<<"t","i","c","k","e","r">>),
       JStr(<<"i","s","i","n">>),
       JStr(<<"n","a","m","e">>),
       JStr(<<"c","u","r","r","e","n","c","y">>),
       JStr(<<"q","u","a","n","t","i","t","y">>),
       JStr(<<"a","v","g","_","p","r","i","c","e","_","p","a","i","d">>),
       JStr(<<"c","u","r","r","e","n","t","_","p","r","i","c","e">>),
       JStr(<<"t","o","t","a","l","_","c","o","s","t">>),
       JStr(<<"c","u","r","r","e","n","t","_","v","a","l","u","e">>),
       JStr(<<"u","n","r","e","a","l","i","z","e","d","_","p","l">>),
       JStr(<<"u","n","r","e","a","l","i","z","e","d","_","p","l","_","p","c","t">>) >>

\* write_snapshot_csv: the row written for r
CsvRow(r, pl_pct) ==
    << CsvCell(JStr(r.ticker)), CsvCell(JStr(r.isin)), CsvCell(JStr(r.name)),
       CsvCell(JStr(r.currency)), CsvCell(r.quantity), CsvCell(r.avg_price_paid),
       CsvCell(r.current_price), CsvCell(r.total_cost), CsvCell(r.current_value),
       CsvCell(r.unrealized_pl), CsvCell(pl_pct) >>

-----------------------------------------------------------------------------
(* Inputs: instrument DB files and query identifiers *)

Unset == [k |-> "unset"]

RECURSIVE StringsUpTo(_, _)
StringsUpTo(chars, n) ==
    IF n = 0 THEN {<<>>}
    ELSE LET shorter == StringsUpTo(chars, n - 1)
         IN  shorter \cup {Append(s, c) : s \in shorter, c \in chars}

RECURSIVE SeqsOfLen(_, _)
SeqsOfLen(S, n) ==
    IF n = 0 THEN {<<>>}
    ELSE {Append(s, e) : s \in SeqsOfLen(S, n - 1), e \in S}

IdChars == {"a", "A", " "}

QueryIds ==
    {JNull}
    \cup {JStr(s) : s \in StringsUpTo(IdChars, MaxIdLen)}
    \cup {JStr(<<"a"," ","a">>), JStr(<<" ","a"," ">>), JStr(<<"\t","a","\n">>),
          JStr(<<"a","\t","b">>), JStr(<<"\n","\t">>)}

EQUITY == <<"E","Q","U","I","T","Y">>

TagStrings ==
    { <<>>, ETF, INDEX, EQUITY,
      <<"e","t","f">>, <<"I","n","d","e","x">>, <<"E","q","u","i","t","y">>,
      <<" ","e","t","f"," ">>, <<"\t","I","N","D","E","X","\n">>,
      <<"E","T","F","S">>, <<"E"," ","T","F">> }

RegKeys ==
    { <<>>, <<" ">>, <<"\t">>, <<"a">>, <<"A">>, <<" ","a">>, <<"a"," ">>,
      <<"a","A">>, <<"a"," ","a">> }

\* values of a Shape A mapping
ValuesA ==
    {JStr(t) : t \in TagStrings}
    \cup {JObj(<< <<K_TYPE, JStr(t)>> >>) : t \in TagStrings}
    \cup {JObj(<< <<K_type, JStr(t)>> >>) : t \in TagStrings}
    \cup { JNull, JNum(5), JObj(<<>>),
           JObj(<< <<K_foo, JStr(ETF)>> >>),
           JObj(<< <<K_TYPE, JStr(<<>>)>>, <<K_type, JStr(ETF)>> >>),
           JObj(<< <<K_TYPE, JNull>>, <<K_type, JStr(INDEX)>> >>),
           JObj(<< <<K_TYPE, JStr(EQUITY)>>, <<K_type, JStr(ETF)>> >>),
           JObj(<< <<K_TYPE, JList(<<JStr(ETF)>>)>> >>) }

SmallEntriesA ==
    {<<key, val>> : key \in {<<"a">>, <<"A">>, <<"a"," ">>, <<"a","a">>, <<" ">>},
                    val \in {JStr(ETF), JObj(<< <<K_type, JStr(EQUITY)>> >>)}}

UniqueKeys(items) ==
    \A m, n \in DOMAIN items : m # n => items[m][1] # items[n][1]

\* Shape A files: a JSON object keyed by identifier
DocsA ==
    {JObj(<<>>)}
    \cup {JObj(<< <<key, val>> >>) : key \in RegKeys, val \in ValuesA}
    \cup UNION {{JObj(items) : items \in {s \in SeqsOfLen(SmallEntriesA, n) : UniqueKeys(s)}}
                : n \in 2..MaxEntries}

IdValuesB ==
    {JStr(key) : key \in RegKeys}
    \cup {JNull, JNum(0), JNum(12), JBool(FALSE), JList(<<>>)}

TypeFieldsB ==
    { <<K_TYPE, JStr(ETF)>>, <<K_type, JStr(<<"I","n","d","e","x">>)>>,
      <<K_TYPE, JStr(EQUITY)>>, <<K_type, JStr(<<" ","e","t","f"," ">>)>> }

\* elements of a Shape B list
ElemsB ==
    {JObj(<< <<ik, idv>>, tf >>) :
        ik \in {K_isin, K_ISIN, K_Isin}, idv \in IdValuesB, tf \in TypeFieldsB}
    \cup { JNull, JNum(1), JStr(<<"a">>), JList(<<>>), JObj(<<>>),
           JObj(<< <<K_foo, JStr(<<"b","a","r">>)>> >>),
           JObj(<< <<K_type, JStr(ETF)>>, <<K_ISIN, JStr(<<"a">>)>> >>),
           JObj(<< <<K_isin, JNull>>, <<K_ISIN, JStr(<<"a">>)>>, <<K_TYPE, JStr(ETF)>> >>),
           JObj(<< <<K_ISIN, JStr(<<"a">>)>>, <<K_isin, JStr(<<"a","a">>)>>,
                   <<K_TYPE, JStr(ETF)>> >>) }

SmallElemsB ==
    { JObj(<< <<K_isin, JStr(<<"a">>)>>, <<K_TYPE, JStr(ETF)>> >>),
      JObj(<< <<K_ISIN, JStr(<<" ","A">>)>>, <<K_type, JStr(EQUITY)>> >>),
      JObj(<< <<K_Isin, JStr(<<"a","a">>)>>, <<K_type, JStr(<<"i","n","d","e","x">>)>> >>),
      JObj(<< <<K_isin, JStr(<<" ">>)>>, <<K_TYPE, JStr(ETF)>> >>),
      JObj(<< <<K_foo, JStr(<<"a">>)>>, <<K_TYPE, JStr(ETF)>> >>),
      JStr(<<"a">>) }

\* Shape B files: a JSON array of records
DocsB ==
    {JList(<<>>)}
    \cup {JList(<<e>>) : e \in ElemsB}
    \cup UNION {{JList(s) : s \in SeqsOfLen(SmallElemsB, n)} : n \in 2..MaxEntries}

\* files whose top-level value is neither an object nor an array
DocsOther == {JNull, JNum(7), JStr(ETF), JBool(TRUE)}

DbDocs == DocsA \cup DocsB \cup DocsOther

-----------------------------------------------------------------------------
(* The registry as a program: load a file, then answer queries *)

InitDB ==
    /\ db_json \in DbDocs
    /\ by_isin = <<>>
    /\ db_state = "unloaded"
    /\ q_isin = Unset
    /\ q_norm = <<>>
    /\ q_result = FALSE
    /\ pairs = <<>>
    /\ db_json_b = JNull
    /\ by_isin_b = <<>>
    /\ db_state_b = "unloaded"
    /\ q_result_b = FALSE
    /\ data = JNull
    /\ exit_tax_rate = 0
    /\ pc = "idle"
    /\ idx = 0
    /\ rows = <<>>
    /\ result = <<>>
    /\ err = "none"
    /\ filtered = <<>>
    /\ snap_pc = "idle"
    /\ snap_idx = 0
    /\ snap_rows = <<>>
    /\ snap_err = "none"
    /\ csv_rows = <<>>

\* db = InstrumentDB.load(path)
Load ==
    /\ db_state = "unloaded"
    /\ db_state' = load(db_json).st
    /\ by_isin' = load(db_json).by
    /\ UNCHANGED <<db_json, q_isin, q_norm, q_result, shapeVars, taxVars, snapVars>>

\* db.is_exit_tax(isin)
Query(isin) ==
    /\ db_state = "loaded"
    /\ q_isin' = isin
    /\ q_norm' = normalize_isin(isin)
    /\ q_result' = is_exit_tax(by_isin, isin)
    /\ UNCHANGED <<db_json, by_isin, db_state, shapeVars, taxVars, snapVars>>

NextDB ==
    \/ Load
    \/ \E isin \in QueryIds : Query(isin)

SpecDB == InitDB /\ [][NextDB]_vars

-----------------------------------------------------------------------------
(* Properties of the registry *)

NoWhitespace(s) == \A n \in DOMAIN s : s[n] \notin Whitespace
NoLowerCase(s) == \A n \in DOMAIN s : ~IsLower(s[n])
AllWhitespace(s) == \A n \in DOMAIN s : s[n] \in Whitespace

Registered(norm) == HasKey(JObj(by_isin), norm)

\* the type tag a record carries: the value under TYPE, or else under type,
\* or else the empty tag
RecordTag(rec) ==
    IF HasKey(rec, K_TYPE) /\ Truthy(Get(rec, K_TYPE, JNull))
    THEN PyStr(Get(rec, K_TYPE, JNull))
    ELSE IF HasKey(rec, K_type) /\ Truthy(Get(rec, K_type, JNull))
         THEN PyStr(Get(rec, K_type, JNull))
         ELSE <<>>

\* the identifier a source entry resolves to (empty: none)
EntryId(doc, n) ==
    IF IsDict(doc) THEN normalize_isin(JStr(doc.v[n][1]))
    ELSE LET e == doc.v[n]
         IN  IF ~IsDict(e) THEN <<>>
             ELSE LET isinKeys == {m \in DOMAIN e.v : Lower(e.v[m][1]) = K_isin}
                  IN  IF isinKeys = {} THEN <<>>
                      ELSE LET first == CHOOSE m \in isinKeys :
                                            \A m2 \in isinKeys : m <= m2
                           IN  normalize_isin(e.v[first][2])

\* the record a source entry contributes
EntryRecord(doc, n) ==
    IF IsDict(doc)
    THEN (IF IsDict(doc.v[n][2]) THEN doc.v[n][2]
          ELSE JObj(<< <<K_TYPE, doc.v[n][2]>> >>))
    ELSE doc.v[n]

SourceIds(doc) == {EntryId(doc, n) : n \in DOMAIN doc.v} \ {<<>>}

\* C9: normalize is total and idempotent: its result has no whitespace and
\* no lower-case letter, normalizing it again changes nothing, and null and
\* empty or all-whitespace strings normalize to the empty string.
C9_NormalizeIdempotent ==
    q_isin # Unset =>
        /\ DOMAIN q_norm = 1..Len(q_norm)
        /\ NoWhitespace(q_norm)
        /\ NoLowerCase(q_norm)
        /\ normalize_isin(JStr(q_norm)) = q_norm
        /\ (q_isin = JNull => q_norm = <<>>)
        /\ (q_isin.k = "str" /\ AllWhitespace(q_isin.v) => q_norm = <<>>)

C9_Witness ==
    /\ q_isin = JStr(<<"a", " ", "a">>)
    /\ q_norm = <<"A", "A">>

\* C3 (as amended): for a registered identifier, is_exit_tax returns true
\* iff the record's type tag, upper-cased and with surrounding whitespace
\* stripped, equals "ETF" or "INDEX"; every other tag is not eligible.
C3_EligibleIffTagTrimmed ==
    (q_isin # Unset /\ Registered(q_norm)) =>
        (q_result <=>
            Strip(Upper(RecordTag(Lookup(by_isin, q_norm)))) \in {ETF, INDEX})

C3_Witness ==
    /\ q_isin # Unset
    /\ Registered(q_norm)
    /\ RecordTag(Lookup(by_isin, q_norm)) = <<"\t","I","N","D","E","X","\n">>
    /\ q_result

\* C3 (as claimed): for a registered identifier, is_exit_tax returns true
\* iff the record's type tag, case-folded, equals "ETF" or "INDEX" exactly,
\* so a tag with surrounding whitespace is not eligible.
C3_EligibleIffTagExact ==
    (q_isin # Unset /\ Registered(q_norm)) =>
        (q_result <=> Upper(RecordTag(Lookup(by_isin, q_norm))) \in {ETF, INDEX})

\* C4: identifiers with the same normalized form get the same answer,
\* whatever case and whitespace the identifier had in the source file, and
\* an identifier whose normalized form is empty or unregistered gets false.
C4_SameNormSameAnswer ==
    (q_isin # Unset) =>
        /\ \A y \in QueryIds :
              normalize_isin(y) = normalize_isin(q_isin)
                  => is_exit_tax(by_isin, y) = q_result
        /\ \A n \in DOMAIN db_json.v :
              (EntryId(db_json, n) # <<>>
                 /\ EntryId(db_json, n) = normalize_isin(q_isin))
                  => Registered(normalize_isin(q_isin))
        /\ (normalize_isin(q_isin) = <<>> => ~q_result)
        /\ (~Registered(normalize_isin(q_isin)) => ~q_result)

C4_Witness ==
    /\ q_isin = JStr(<<" ", "a", " ">>)
    /\ q_result
    /\ IsDict(db_json)
    /\ \E n \in DOMAIN db_json.v : db_json.v[n][1] = <<"a", " ">>

\* C8: load drops, without raising, every entry with no resolvable non-empty
\* normalized identifier; count() is the number of distinct non-empty
\* normalized identifiers of the entries, and of the entries that share one
\* the last is the one kept.
C8_LoadDropsAndCounts ==
    (db_state # "unloaded" /\ (IsDict(db_json) \/ IsList(db_json))) =>
        /\ db_state = "loaded"
        /\ count(by_isin) = Cardinality(SourceIds(db_json))
        /\ \A id \in SourceIds(db_json) :
              LET last == CHOOSE n \in DOMAIN db_json.v :
                              /\ EntryId(db_json, n) = id
                              /\ \A m \in DOMAIN db_json.v :
                                    EntryId(db_json, m) = id => m <= n
              IN  Lookup(by_isin, id) = EntryRecord(db_json, last)
        /\ \A n \in DOMAIN by_isin : by_isin[n][1] \in SourceIds(db_json)

C8_Witness ==
    /\ db_state = "loaded"
    /\ IsList(db_json)
    /\ Len(db_json.v) = 2
    /\ count(by_isin) = 1
    /\ EntryId(db_json, 1) # <<>>
    /\ EntryId(db_json, 2) = EntryId(db_json, 1)

-----------------------------------------------------------------------------
(* The two shapes of one registry: the same (identifier, type) pairs written
   as a Shape A file and as a Shape B file, entries in the same order, each
   file loaded and both registries queried *)

PairIds == {<<>>, <<"a">>, <<"A">>, <<" ","a">>, <<"a","a">>}
PairTags == {ETF, EQUITY, <<" ","e","t","f"," ">>}
AllPairs == {<<id, tag>> : id \in PairIds, tag \in PairTags}

PairSeqs ==
    UNION {{s \in SeqsOfLen(AllPairs, n) : UniqueKeys(s)} : n \in 0..MaxEntries}

StylesA == {"bare", "TYPE", "type"}
StylesB == {<<K_isin, K_TYPE>>, <<K_ISIN, K_type>>, <<K_Isin, K_TYPE>>}

\* the Shape A file: identifier -> bare type string, or -> record with TYPE/type
EncodeA(ps, style) ==
    JObj([n \in DOMAIN ps |->
            <<ps[n][1],
              CASE style = "bare" -> JStr(ps[n][2])
                [] style = "TYPE" -> JObj(<< <<K_TYPE, JStr(ps[n][2])>> >>)
                [] style = "type" -> JObj(<< <<K_type, JStr(ps[n][2])>> >>)>>])

\* the Shape B file: records with an isin-named key and a TYPE/type field
EncodeB(ps, style) ==
    JList([n \in DOMAIN ps |->
            JObj(<< <<style[1], JStr(ps[n][1])>>, <<style[2], JStr(ps[n][2])>> >>)])

InitShapes ==
    /\ pairs \in PairSeqs
    /\ db_json = JNull
    /\ by_isin = <<>>
    /\ db_state = "unloaded"
    /\ db_json_b = JNull
    /\ by_isin_b = <<>>
    /\ db_state_b = "unloaded"
    /\ q_isin = Unset
    /\ q_norm = <<>>
    /\ q_result = FALSE
    /\ q_result_b = FALSE
    /\ data = JNull
    /\ exit_tax_rate = 0
    /\ pc = "idle"
    /\ idx = 0
    /\ rows = <<>>
    /\ result = <<>>
    /\ err = "none"
    /\ filtered = <<>>
    /\ snap_pc = "idle"
    /\ snap_idx = 0
    /\ snap_rows = <<>>
    /\ snap_err = "none"
    /\ csv_rows = <<>>

\* the pairs written as a Shape A file, and InstrumentDB.load on it
LoadShapeA(style) ==
    /\ db_state = "unloaded"
    /\ db_json' = EncodeA(pairs, style)
    /\ db_state' = load(EncodeA(pairs, style)).st
    /\ by_isin' = load(EncodeA(pairs, style)).by
    /\ UNCHANGED <<pairs, db_json_b, by_isin_b, db_state_b, q_isin, q_norm,
                   q_result, q_result_b, taxVars, snapVars>>

\* the pairs written as a Shape B file, and InstrumentDB.load on it
LoadShapeB(style) ==
    /\ db_state # "unloaded"
    /\ db_state_b = "unloaded"
    /\ db_json_b' = EncodeB(pairs, style)
    /\ db_state_b' = load(EncodeB(pairs, style)).st
    /\ by_isin_b' = load(EncodeB(pairs, style)).by
    /\ UNCHANGED <<pairs, db_json, by_isin, db_state, q_isin, q_norm,
                   q_result, q_result_b, taxVars, snapVars>>

\* is_exit_tax(isin) on both registries
QueryBoth(isin) ==
    /\ db_state = "loaded"
    /\ db_state_b = "loaded"
    /\ q_isin' = isin
    /\ q_norm' = normalize_isin(isin)
    /\ q_result' = is_exit_tax(by_isin, isin)
    /\ q_result_b' = is_exit_tax(by_isin_b, isin)
    /\ UNCHANGED <<pairs, db_json, by_isin, db_state, db_json_b, by_isin_b,
                   db_state_b, taxVars, snapVars>>

ShapeQueryIds == {JNull} \cup {JStr(id) : id \in PairIds \cup {<<"a"," ">>, <<"A","a">>}}

NextShapes ==
    \/ \E style \in StylesA : LoadShapeA(style)
    \/ \E style \in StylesB : LoadShapeB(style)
    \/ \E isin \in ShapeQueryIds : QueryBoth(isin)

SpecShapes == InitShapes /\ [][NextShapes]_vars

\* C7: registries loaded from the Shape A encoding and from the Shape B
\* encoding of the same (identifier, type) pairs give the same
\* is_exit_tax result for every query identifier, and the same count().
C7_ShapesAgree ==
    (db_state # "unloaded" /\ db_state_b # "unloaded") =>
        /\ db_state = "loaded"
        /\ db_state_b = "loaded"
        /\ count(by_isin) = count(by_isin_b)
        /\ (q_isin # Unset => q_result = q_result_b)
        /\ \A n \in DOMAIN pairs :
              is_exit_tax(by_isin, JStr(pairs[n][1]))
                  = is_exit_tax(by_isin_b, JStr(pairs[n][1]))

C7_Witness ==
    /\ db_state = "loaded"
    /\ db_state_b = "loaded"
    /\ Len(pairs) = 2
    /\ normalize_isin(JStr(pairs[1][1])) = normalize_isin(JStr(pairs[2][1]))
    /\ pairs[1][2] = EQUITY
    /\ IsDict(db_json.v[1][2])
    /\ q_isin = JStr(<<"a"," ">>)
    /\ q_result
    /\ q_result_b

-----------------------------------------------------------------------------
(* Inputs of the exit-tax command: positions files, rate, clock *)

Absent == [k |-> "absent"]

\* a JSON object of the fields that are present
RECURSIVE Present(_)
Present(fields) ==
    IF fields = <<>> THEN <<>>
    ELSE IF fields[1][2] = Absent THEN Present(Tail(fields))
         ELSE <<fields[1]>> \o Present(Tail(fields))

MkObj(fields) == JObj(Present(fields))

Pad2(n) == <<Digits[(n \div 10) + 1], Digits[(n % 10) + 1]>>
Pad4(n) == Pad2(n \div 100) \o Pad2(n % 100)

\* the timestamp text of year-month-day followed by a time suffix
IsoText(y, m, d, suffix) == Pad4(y) \o <<"-">> \o Pad2(m) \o <<"-">> \o Pad2(d) \o suffix

SuffixZ == <<"T","1","7",":","5","5",":","0","9",".","0","0","0","Z">>
SuffixOffset ==
    <<"T","1","0",":","0","5",":","1","4",".","0","1","5","+","0","2",":","0","0">>
Suffixes == {<<>>, SuffixZ, SuffixOffset}

Years == {2020, 2021, 2092, 2096}
MonthDays == {<<1, 1>>, <<2, 28>>, <<2, 29>>, <<2, 30>>, <<5, 11>>, <<12, 31>>, <<13, 1>>}

IsoTexts ==
    {IsoText(y, md[1], md[2], sfx) : y \in Years, md \in MonthDays, sfx \in Suffixes}

NotADate == <<"n","o","t","-","a","-","d","a","t","e">>

CreatedValues ==
    {JStr(t) : t \in IsoTexts}
    \cup { Absent, JNull, JNum(5), JStr(<<>>), JStr(<<" ">>), JStr(NotADate),
           JStr(<<" ">> \o IsoText(2020, 5, 11, SuffixZ) \o <<"\n">>),
           JStr(IsoText(2020, 5, 11, <<"T","2","5",":","0","0",":","0","0","Z">>)),
           JStr(IsoText(2020, 5, 11, <<"T","1","7",":","5","5","Z","Z">>)) }

GoodCreated == JStr(IsoText(2020, 5, 11, SuffixZ))

Instrument(ticker, isin, name, currency) ==
    MkObj(<< <<K_ticker, ticker>>, <<K_isin, isin>>, <<K_name, name>>,
             <<K_currency, currency>> >>)

WalletImpact(currency, totalCost, currentValue, pl) ==
    MkObj(<< <<K_currency, currency>>, <<K_totalCost, totalCost>>,
             <<K_currentValue, currentValue>>, <<K_unrealizedProfitLoss, pl>> >>)

Position(inst, wi, created) ==
    MkObj(<< <<K_instrument, inst>>, <<K_walletImpact, wi>>, <<K_createdAt, created>> >>)

GoodInstrument == Instrument(JStr(<<"T">>), JStr(<<"a">>), JStr(<<"N">>), JStr(<<"E">>))
GoodWallet == WalletImpact(JStr(<<"U">>), JNum(1000), JNum(1500), JNum(500))

MoneyValues ==
    { Absent, JNull, JNum(0), JNum(100), JNum(150), JNum(-20), JBool(TRUE),
      JStr(<<"8","0">>), JStr(<<" ","-","5"," ">>), JStr(<<"a","b","c">>), JList(<<JNum(1)>>) }

PlValues == {Absent, JNum(50), JNum(-7), JStr(<<"x">>), JNull}

\* texts a string field may hold, and the other things found in its place
TextValues == {Absent, JNull, JStr(<<>>), JStr(<<"a">>), JStr(<<" ","A">>), JStr(<<"b">>), JNum(7)}

\* what may stand where a nested descriptor is expected
DescriptorValues ==
    { Absent, JNull, JObj(<<>>), JStr(<<>>), JStr(<<"x">>), JNum(0), JNum(3),
      JBool(FALSE), JList(<<>>), JList(<<JNum(1)>>) }

DatePositions == {Position(GoodInstrument, GoodWallet, c) : c \in CreatedValues}

TaxPositions ==
    {Position(GoodInstrument, WalletImpact(JStr(<<"U">>), tc, cv, pl), GoodCreated) :
        tc \in MoneyValues, cv \in MoneyValues, pl \in PlValues}

FieldPositions ==
    {Position(Instrument(t, i, JStr(<<"N">>), c), GoodWallet, GoodCreated) :
        t \in {Absent, JNull, JStr(<<"T">>)}, i \in TextValues, c \in {Absent, JStr(<<"E">>)}}
    \cup {Position(GoodInstrument, WalletImpact(c, JNum(100), JNum(150), Absent), GoodCreated) :
        c \in TextValues}
    \cup {Position(inst, GoodWallet, GoodCreated) : inst \in DescriptorValues}
    \cup {Position(GoodInstrument, wi, GoodCreated) : wi \in DescriptorValues}
    \cup {Position(Absent, Absent, Absent)}

\* elements of the array that are not position objects
NonPositions == {JNull, JNum(1), JStr(<<"x">>), JList(<<>>)}

AllPositions == DatePositions \cup TaxPositions \cup FieldPositions \cup NonPositions

SmallPositions ==
    { Position(GoodInstrument, GoodWallet, GoodCreated),
      Position(Instrument(JStr(<<"T">>), JStr(<<" ","b">>), Absent, Absent),
               WalletImpact(Absent, JNum(150), JNum(100), Absent),
               JStr(IsoText(2092, 2, 29, SuffixOffset))),
      Position(Instrument(Absent, JStr(<<"c">>), Absent, Absent), JNull, Absent),
      Position(GoodInstrument, GoodWallet, JStr(NotADate)),
      Position(JStr(<<"x">>), GoodWallet, GoodCreated) }

\* positions files whose top-level value is not an array
OtherPositionFiles ==
    { JNull, JNum(0), JNum(7), JBool(TRUE), JBool(FALSE),
      JStr(<<>>), JStr(<<"x">>), JStr(<<"[","]">>),
      JObj(<<>>),
      JObj(<< <<K_instrument, GoodInstrument>>, <<K_walletImpact, GoodWallet>>,
              <<K_createdAt, GoodCreated>> >>),
      JObj(<< <<<<"a">>, Position(GoodInstrument, GoodWallet, GoodCreated)>> >>) }

\* positions files: a JSON array, or another top-level value
PositionFiles ==
    {JList(<<>>)}
    \cup {JList(<<p>>) : p \in AllPositions}
    \cup UNION {{JList(ps) : ps \in SeqsOfLen(SmallPositions, n)} : n \in 2..MaxPositions}
    \cup OtherPositionFiles

Rates == {0 - 38, 0, 38}

\* what datetime.now() may return, as a date
NowDates == {<<2024, 2, 29>>, <<2026, 11, 4>>}

\* instrument DB files the command is run with
CliDbDocs ==
    { JObj(<< <<<<"a">>, JStr(ETF)>>, <<<<"b">>, JStr(EQUITY)>>,
              <<<<"c">>, JObj(<< <<K_type, JStr(INDEX)>> >>)>> >>),
      JList(<< JObj(<< <<K_ISIN, JStr(<<" ","b">>)>>, <<K_type, JStr(<<"e","t","f">>)>> >>) >>),
      JObj(<<>>) }
    \cup DocsOther

-----------------------------------------------------------------------------
(* The exit-tax command: cli.exit_tax calling InstrumentDB.load,
   compute_exit_tax_from_positions and the is_exit_tax filter *)

Init ==
    /\ db_json \in CliDbDocs
    /\ by_isin = <<>>
    /\ db_state = "unloaded"
    /\ q_isin = Unset
    /\ q_norm = <<>>
    /\ q_result = FALSE
    /\ pairs = <<>>
    /\ db_json_b = JNull
    /\ by_isin_b = <<>>
    /\ db_state_b = "unloaded"
    /\ q_result_b = FALSE
    /\ data \in PositionFiles
    /\ exit_tax_rate \in Rates
    /\ pc = "start"
    /\ idx = 0
    /\ rows = <<>>
    /\ result = <<>>
    /\ err = "none"
    /\ filtered = <<>>
    /\ snap_pc = "idle"
    /\ snap_idx = 0
    /\ snap_rows = <<>>
    /\ snap_err = "none"
    /\ csv_rows = <<>>

\* cli.exit_tax: load raised, or db.count() == 0 raises BadParameter
DbRejected ==
    /\ pc = "start"
    /\ db_state # "unloaded"
    /\ db_state = "error" \/ count(by_isin) = 0
    /\ pc' = "failed"
    /\ err' = IF db_state = "error" THEN "ValueError" ELSE "BadParameter"
    /\ UNCHANGED <<dbVars, shapeVars, snapVars, data, exit_tax_rate, idx, rows, result, filtered>>

\* compute_exit_tax_from_positions is entered: data is read, rows = [],
\* and the for statement asks data for its iterator
ComputeBegin ==
    /\ pc = "start"
    /\ db_state = "loaded"
    /\ count(by_isin) # 0
    /\ idx' = 0
    /\ rows' = <<>>
    /\ IF Iterable(data)
       THEN pc' = "loop" /\ UNCHANGED err
       ELSE pc' = "raised" /\ err' = "TypeError"
    /\ UNCHANGED <<dbVars, shapeVars, snapVars, data, exit_tax_rate, result, filtered>>

\* one pass of "for p in data": a row is appended, or an exception leaves
\* the function and nothing is returned
ComputeStep ==
    /\ pc = "loop"
    /\ idx < Len(Items(data))
    /\ \E now \in NowDates :
          LET out == LoopBody(Items(data)[idx + 1], exit_tax_rate, now)
          IN  IF out.err = "none"
              THEN /\ rows' = Append(rows, out.row)
                   /\ idx' = idx + 1
                   /\ UNCHANGED <<pc, err>>
              ELSE /\ pc' = "raised"
                   /\ err' = out.err
                   /\ UNCHANGED <<rows, idx>>
    /\ UNCHANGED <<dbVars, shapeVars, snapVars, data, exit_tax_rate, result, filtered>>

\* return rows
ComputeReturn ==
    /\ pc = "loop"
    /\ idx = Len(Items(data))
    /\ result' = rows
    /\ pc' = "returned"
    /\ UNCHANGED <<dbVars, shapeVars, snapVars, data, exit_tax_rate, idx, rows, err, filtered>>

\* cli.exit_tax: rows = [r for r in rows if db.is_exit_tax(r.isin)]
Filter ==
    /\ pc = "returned"
    /\ filtered' = FilterRows(result, by_isin)
    /\ pc' = "done"
    /\ UNCHANGED <<dbVars, shapeVars, snapVars, data, exit_tax_rate, idx, rows, result, err>>

Next ==
    \/ Load
    \/ DbRejected
    \/ ComputeBegin
    \/ ComputeStep
    \/ ComputeReturn
    \/ Filter

Spec == Init /\ [][Next]_vars

-----------------------------------------------------------------------------
(* Properties of the exit tax engine and of the command *)

\* the days a month has in the Gregorian calendar
CalendarDays(y, m) ==
    CASE m \in {1, 3, 5, 7, 8, 10, 12} -> 31
      [] m \in {4, 6, 9, 11} -> 30
      [] m = 2 -> (IF y % 400 = 0 THEN 29
                   ELSE IF y % 100 = 0 THEN 28
                   ELSE IF y % 4 = 0 THEN 29 ELSE 28)
      [] OTHER -> 0

CalendarDate(d) == d[3] >= 1 /\ d[3] <= CalendarDays(d[1], d[2])

\* the timestamp texts of the accepted profile, with the date each denotes
TimestampDates(text) ==
    {<<y, md[1], md[2]>> : y \in Years, md \in MonthDays} \cap
    {d \in {<<y, md[1], md[2]>> : y \in Years, md \in MonthDays} :
        /\ CalendarDate(d)
        /\ \E sfx \in Suffixes : Strip(text) = IsoText(d[1], d[2], d[3], sfx)}

HasCreated(p) == IsDict(p) /\ HasKey(p, K_createdAt)

\* the timestamp of p as the code reads it: str() of the field, stripped
CreatedText(p) == Strip(PyStr(Get(p, K_createdAt, JStr(<<>>))))

\* p carries a non-empty creation timestamp that cannot be parsed
BadTimestamp(p) ==
    /\ HasCreated(p)
    /\ CreatedText(p) # <<>>
    /\ TimestampDates(CreatedText(p)) = {}

BadPositions == {n \in DOMAIN Items(data) : BadTimestamp(Items(data)[n])}

Computing == pc \in {"loop", "raised", "returned", "done"}

\* C1: every record has taxable_gain_today = max(current_value - total_cost, 0),
\* never negative, and exit_tax_due_today = taxable_gain_today * exit_tax_rate;
\* with current_value <= total_cost both are 0.
C1_TaxableGainClamped ==
    Computing =>
        \A n \in DOMAIN rows :
            LET r == rows[n]
            IN  /\ r.taxable_gain_today >= 0
                /\ r.taxable_gain_today =
                      (IF r.current_value - r.total_cost > 0
                       THEN r.current_value - r.total_cost ELSE 0)
                /\ r.exit_tax_due_today = r.taxable_gain_today * exit_tax_rate
                /\ r.current_value <= r.total_cost =>
                      (r.taxable_gain_today = 0 /\ r.exit_tax_due_today = 0)

C1_Witness ==
    /\ pc = "returned"
    /\ exit_tax_rate = 38
    /\ Len(result) = 1
    /\ result[1].total_cost = 100
    /\ result[1].current_value = 80
    /\ result[1].taxable_gain_today = 0
    /\ result[1].exit_tax_due_today = 0

\* C2: deemed_disposal_date is the creation date's month and day in year + 8,
\* except that 29 February becomes 28 February when year + 8 is not a leap
\* year; it is always a calendar date of year + 8.  The creation date is the
\* one the timestamp of the position denotes.
C2_DeemedDisposalDate ==
    Computing =>
        \A n \in DOMAIN rows :
            LET c == rows[n].created_at
                dd == rows[n].deemed_disposal_date
            IN  /\ CalendarDate(c)
                /\ (HasCreated(Items(data)[n]) /\ CreatedText(Items(data)[n]) # <<>>)
                      => c \in TimestampDates(CreatedText(Items(data)[n]))
                /\ dd[1] = c[1] + 8
                /\ CalendarDate(dd)
                /\ IF c[2] = 2 /\ c[3] = 29 /\ CalendarDays(c[1] + 8, 2) = 28
                   THEN dd[2] = 2 /\ dd[3] = 28
                   ELSE dd[2] = c[2] /\ dd[3] = c[3]

C2_Witness ==
    /\ pc = "returned"
    /\ Len(result) = 1
    /\ result[1].created_at = <<2092, 2, 29>>
    /\ result[1].deemed_disposal_date = <<2100, 2, 28>>

\* C5: when a position has a non-empty creation timestamp that cannot be
\* parsed, the computation never gets past it and returns nothing: it ends
\* in an error, and no record sequence reaches the caller.
C5_BadTimestampAbortsBatch ==
    (Computing /\ BadPositions # {}) =>
        /\ \A n \in BadPositions : idx < n
        /\ pc \in {"loop", "raised"}
        /\ pc = "raised" => err # "none"
        /\ result = <<>>
        /\ filtered = <<>>

C5_Witness ==
    /\ pc = "raised"
    /\ err = "ValueError"
    /\ Len(Items(data)) = 2
    /\ BadPositions = {2}
    /\ Len(rows) = 1

\* the identifier the record of position p carries
PositionIsin(p) ==
    LET inst == Get(p, K_instrument, JNull)
    IN  IF IsDict(inst) /\ HasKey(inst, K_isin) THEN PyStr(Get(inst, K_isin, JNull))
        ELSE <<>>

\* the indices of the records is_exit_tax accepts
Eligible == {n \in DOMAIN result : is_exit_tax(by_isin, JStr(result[n].isin))}

\* C6: a successful computation returns one record per position, in input
\* order, whatever the registry holds; the command's filter then keeps
\* exactly the records whose identifier is eligible, in the same order.
C6_OneRecordPerPosition ==
    /\ pc = "loop" => Len(rows) = idx
    /\ pc \in {"returned", "done"} =>
          /\ Len(result) = Len(Items(data))
          /\ \A n \in DOMAIN result : result[n].isin = PositionIsin(Items(data)[n])
    /\ pc = "done" =>
          /\ Len(filtered) = Cardinality(Eligible)
          /\ \A j \in DOMAIN filtered :
                filtered[j] = result[CHOOSE n \in Eligible :
                                        Cardinality({m \in Eligible : m <= n}) = j]

C6_Witness ==
    /\ pc = "done"
    /\ Len(result) = 2
    /\ Len(filtered) = 1
    /\ filtered[1] = result[2]

\* what a numeric field of the wallet impact is read as: its number, or
\* fallback when absent or unparseable
FieldNumber(p, key, fallback) ==
    LET wi == Get(p, K_walletImpact, JNull)
        x == IF IsDict(wi) THEN Get(wi, key, JNull) ELSE JNull
    IN  CASE x.k = "num" -> x.v
          [] x.k = "bool" -> (IF x.v THEN 1 ELSE 0)
          [] x.k = "str" /\ StrIsNumber(x.v) -> StrNumber(x.v)
          [] OTHER -> fallback

\* C10: a missing or malformed field other than the creation timestamp never
\* aborts the batch: a position object whose timestamp is not malformed gets
\* a record whatever its other fields hold, with total_cost and
\* current_value 0 when absent or unparseable, unrealized P/L from the
\* wallet impact or else current_value - total_cost, and missing string
\* fields empty.
C10_FieldsNeverAbort ==
    Computing =>
        /\ (pc = "raised" /\ idx < Len(Items(data))) =>
              (IsDict(Items(data)[idx + 1]) => BadTimestamp(Items(data)[idx + 1]))
        /\ \A n \in DOMAIN rows :
              LET r == rows[n]
                  p == Items(data)[n]
                  inst == Get(p, K_instrument, JNull)
              IN  /\ r.total_cost = FieldNumber(p, K_totalCost, 0)
                  /\ r.current_value = FieldNumber(p, K_currentValue, 0)
                  /\ r.unrealised_pl =
                        FieldNumber(p, K_unrealizedProfitLoss,
                                    r.current_value - r.total_cost)
                  /\ (~IsDict(inst) \/ ~HasKey(inst, K_ticker)) => r.ticker = <<>>
                  /\ (~IsDict(inst) \/ ~HasKey(inst, K_isin)) => r.isin = <<>>

\* the top-level value of a positions file is an array of objects
PositionSequence(x) == IsList(x) /\ \A n \in DOMAIN x.v : IsDict(x.v[n])

\* the top-level value of an instrument DB file is an object or an array
RegistryShape(x) == IsDict(x) \/ IsList(x)

\* C11: a top-level JSON value of an unaccepted shape is always fatal and
\* never yields a result: the registry load fails exactly for the top-level
\* values that are neither a mapping nor a sequence, leaving no registry; and
\* for a positions file whose top-level value is not a sequence of position
\* objects (a mapping included, even an empty one) the computation does not
\* return a record sequence: it is still running or it has ended in an error.
C11_UnacceptedShapeFails ==
    /\ db_state # "unloaded" =>
          /\ db_state = "error" <=> ~RegistryShape(db_json)
          /\ db_state = "error" => by_isin = <<>>
    /\ (Computing /\ ~PositionSequence(data)) =>
          /\ pc \in {"loop", "raised"}
          /\ pc = "raised" => err # "none"
          /\ result = <<>>
          /\ filtered = <<>>

-----------------------------------------------------------------------------
(* Inputs of the snapshot command: positions files *)

SnapPosition(inst, wi, quantity, avg, price) ==
    MkObj(<< <<K_instrument, inst>>, <<K_walletImpact, wi>>, <<K_quantity, quantity>>,
             <<K_averagePricePaid, avg>>, <<K_currentPrice, price>> >>)

SnapCosts ==
    { Absent, JNull, JNum(0), JNum(200), JNum(3), JNum(0 - 20), JBool(FALSE), JBool(TRUE),
      JStr(<<"0">>), JStr(<<" ","4","0"," ">>), JStr(<<"-","0">>), JStr(<<"a","b","c">>),
      JList(<<JNum(1)>>) }

SnapPls ==
    { Absent, JNull, JNum(0), JNum(50), JNum(0 - 7), JBool(TRUE), JStr(<<"1","0">>),
      JStr(<<"x">>) }

SnapQuantities == {Absent, JNull, JNum(0), JNum(2), JStr(<<"x">>)}

PctPositions ==
    {SnapPosition(GoodInstrument, WalletImpact(JStr(<<"U">>), tc, JNum(150), pl),
                  JNum(2), JNum(10), JNum(12)) : tc \in SnapCosts, pl \in SnapPls}

SnapFieldPositions ==
    {SnapPosition(Instrument(JStr(<<"T">>), i, Absent, c), WalletImpact(wc, Absent, cv, Absent),
                  q, Absent, JStr(<<"7">>)) :
        i \in {Absent, JStr(<<"a">>)}, c \in {Absent, JStr(<<>>), JStr(<<"E">>)},
        wc \in {Absent, JStr(<<"U">>)}, cv \in {Absent, JNum(150)}, q \in SnapQuantities}
    \cup {SnapPosition(inst, GoodWallet, JNum(2), JNum(10), JNum(12)) : inst \in DescriptorValues}
    \cup {SnapPosition(GoodInstrument, wi, JNum(2), JNum(10), JNum(12)) : wi \in DescriptorValues}
    \cup {SnapPosition(Absent, Absent, Absent, Absent, Absent)}

SmallSnapPositions ==
    { SnapPosition(Instrument(JStr(<<"T">>), JStr(<<"a">>), Absent, Absent),
                   WalletImpact(Absent, JNum(0), JNum(50), JNum(50)), JNum(1), Absent, Absent),
      SnapPosition(Instrument(JStr(<<"U">>), JStr(<<"b">>), Absent, Absent),
                   WalletImpact(Absent, JNum(200), JNum(250), JNum(50)), JNum(1), Absent, Absent),
      SnapPosition(Instrument(JStr(<<"V">>), JStr(<<"c">>), Absent, Absent),
                   WalletImpact(Absent, JNum(0 - 20), JNum(10), Absent), Absent, Absent, Absent),
      SnapPosition(Instrument(JStr(<<"W">>), JStr(<<"d">>), Absent, Absent),
                   WalletImpact(Absent, JNull, JNum(10), JNum(0 - 7)), Absent, Absent, Absent),
      SnapPosition(JNum(3), GoodWallet, Absent, Absent, Absent) }

\* positions files the snapshot command is run on
SnapshotFiles ==
    {JList(<<>>)}
    \cup {JList(<<p>>) : p \in PctPositions \cup SnapFieldPositions \cup NonPositions}
    \cup UNION {{JList(ps) : ps \in SeqsOfLen(SmallSnapPositions, n)} : n \in 2..MaxPositions}
    \cup OtherPositionFiles

-----------------------------------------------------------------------------
(* The snapshot command: cli.snapshot calling load_positions and
   write_snapshot_csv *)

InitSnapshot ==
    /\ db_json = JNull
    /\ by_isin = <<>>
    /\ db_state = "unloaded"
    /\ q_isin = Unset
    /\ q_norm = <<>>
    /\ q_result = FALSE
    /\ pairs = <<>>
    /\ db_json_b = JNull
    /\ by_isin_b = <<>>
    /\ db_state_b = "unloaded"
    /\ q_result_b = FALSE
    /\ data \in SnapshotFiles
    /\ exit_tax_rate = 0
    /\ pc = "idle"
    /\ idx = 0
    /\ rows = <<>>
    /\ result = <<>>
    /\ err = "none"
    /\ filtered = <<>>
    /\ snap_pc = "start"
    /\ snap_idx = 0
    /\ snap_rows = <<>>
    /\ snap_err = "none"
    /\ csv_rows = <<>>

\* load_positions is entered: data is read, rows = [], and the for
\* statement asks data for its iterator
LoadPositionsBegin ==
    /\ snap_pc = "start"
    /\ snap_idx' = 0
    /\ snap_rows' = <<>>
    /\ IF Iterable(data)
       THEN snap_pc' = "load" /\ UNCHANGED snap_err
       ELSE snap_pc' = "raised" /\ snap_err' = "TypeError"
    /\ UNCHANGED <<dbVars, shapeVars, taxVars, csv_rows>>

\* one pass of "for p in data" in load_positions
LoadPositionsStep ==
    /\ snap_pc = "load"
    /\ snap_idx < Len(Items(data))
    /\ LET out == SnapshotBody(Items(data)[snap_idx + 1])
       IN  IF out.err = "none"
           THEN /\ snap_rows' = Append(snap_rows, out.row)
                /\ snap_idx' = snap_idx + 1
                /\ UNCHANGED <<snap_pc, snap_err>>
           ELSE /\ snap_pc' = "raised"
                /\ snap_err' = out.err
                /\ UNCHANGED <<snap_rows, snap_idx>>
    /\ UNCHANGED <<dbVars, shapeVars, taxVars, csv_rows>>

\* load_positions: return rows
LoadPositionsReturn ==
    /\ snap_pc = "load"
    /\ snap_idx = Len(Items(data))
    /\ snap_pc' = "loaded"
    /\ UNCHANGED <<dbVars, shapeVars, taxVars, snap_idx, snap_rows, snap_err, csv_rows>>

\* write_snapshot_csv is entered: the file is opened and the header written
WriteHeader ==
    /\ snap_pc = "loaded"
    /\ csv_rows' = <<Header>>
    /\ snap_idx' = 0
    /\ snap_pc' = "write"
    /\ UNCHANGED <<dbVars, shapeVars, taxVars, snap_rows, snap_err>>

\* one pass of "for r in rows" in write_snapshot_csv
WriteRow ==
    /\ snap_pc = "write"
    /\ snap_idx < Len(snap_rows)
    /\ LET r == snap_rows[snap_idx + 1]
           pl_pct == PlPct(r.total_cost, r.unrealized_pl)
       IN  IF pl_pct.err = "none"
           THEN /\ csv_rows' = Append(csv_rows, CsvRow(r, pl_pct.v))
                /\ snap_idx' = snap_idx + 1
                /\ UNCHANGED <<snap_pc, snap_err>>
           ELSE /\ snap_pc' = "raised"
                /\ snap_err' = pl_pct.err
                /\ UNCHANGED <<csv_rows, snap_idx>>
    /\ UNCHANGED <<dbVars, shapeVars, taxVars, snap_rows>>

\* write_snapshot_csv returns: the file is closed
WriteClose ==
    /\ snap_pc = "write"
    /\ snap_idx = Len(snap_rows)
    /\ snap_pc' = "written"
    /\ UNCHANGED <<dbVars, shapeVars, taxVars, snap_idx, snap_rows, snap_err, csv_rows>>

NextSnapshot ==
    \/ LoadPositionsBegin
    \/ LoadPositionsStep
    \/ LoadPositionsReturn
    \/ WriteHeader
    \/ WriteRow
    \/ WriteClose

SpecSnapshot == InitSnapshot /\ [][NextSnapshot]_vars

-----------------------------------------------------------------------------
(* Properties of the snapshot *)

\* column of unrealized_pl_pct in snapshot.csv
PctColumn == 11

\* both values of row r the percentage is computed from are present and the
\* cost is not zero
PctDefined(r) ==
    /\ r.total_cost # JNull
    /\ r.unrealized_pl # JNull
    /\ r.total_cost.v # 0

EmptyCell == JStr(<<>>)

\* the data rows snapshot.csv holds so far
CsvDataRows == 1..(Len(csv_rows) - 1)

\* C12: in every snapshot row unrealized_pl_pct is present if and only if
\* total_cost and unrealized_pl are both present and total_cost is not zero,
\* and then it equals unrealized_pl / total_cost; otherwise the cell is
\* empty; no division by zero occurs; and the output has exactly one row
\* per normalized position, in input order.
C12_SnapshotPercentage ==
    /\ snap_err # "ZeroDivisionError"
    /\ snap_pc \in {"loaded", "write", "written"} =>
          /\ Len(snap_rows) = Len(Items(data))
          /\ \A n \in DOMAIN snap_rows :
                snap_rows[n].isin = PositionIsin(Items(data)[n])
    /\ snap_pc = "write" => Len(csv_rows) = 1 + snap_idx
    /\ snap_pc = "written" => Len(csv_rows) = 1 + Len(snap_rows)
    /\ snap_pc \in {"write", "written"} =>
          /\ csv_rows[1] = Header
          /\ \A n \in CsvDataRows :
                LET r == snap_rows[n]
                    line == csv_rows[n + 1]
                    pct == line[PctColumn]
                IN  /\ Len(line) = Len(Header)
                    /\ line[1] = JStr(r.ticker)
                    /\ line[2] = JStr(r.isin)
                    /\ pct # EmptyCell <=> PctDefined(r)
                    /\ PctDefined(r) =>
                          /\ pct.k = "ratio"
                          /\ pct.den # 0
                          /\ pct.num * r.total_cost.v = r.unrealized_pl.v * pct.den
                    /\ ~PctDefined(r) => pct = EmptyCell

C12_Witness ==
    /\ snap_pc = "written"
    /\ Len(csv_rows) = 3
    /\ snap_rows[1].total_cost = JNum(0)
    /\ snap_rows[1].unrealized_pl = JNum(50)
    /\ csv_rows[2][PctColumn] = EmptyCell
    /\ snap_rows[2].total_cost = JNum(200)
    /\ snap_rows[2].unrealized_pl = JNum(50)
    /\ csv_rows[3][PctColumn] = [k |-> "ratio", num |-> 1, den |-> 4]
    /\ csv_rows[2][2] = JStr(<<"a">>)
    /\ csv_rows[3][2] = JStr(<<"b">>)

====
